---- MODULE Spec2Model ----
(***************************************************************************)
(* Model of the brongnal X3DH rendezvous server.                           *)
(*                                                                         *)
(* Two backends share the service contract and are selected at             *)
(* construction: MemoryServer (src/src/main.rs) and SqliteBrongnal         *)
(* (src/native/server/src/sqlite_brongnal.rs).  Every handler is split at  *)
(* the places where it releases one mutex and takes the next, because      *)
(* handlers of different requests run concurrently between those places.   *)
(* Computation on a handler's own arguments (signature verification) is    *)
(* folded into the handler's first step.                                   *)
(***************************************************************************)
EXTENDS Integers, Sequences, FiniteSets, TLC

(***************************************************************************)
(* Bounds of the model.                                                    *)
(***************************************************************************)
NumTasks == 2
MaxPool == 3
MaxBatch == 2
NumFetch == 3
NumSenders == 2
MaxSeq == 2
MaxRetrieves == 2

\* mpsc::channel(4)
ChanCap == 4

Tasks == 1..NumTasks
FetchTasks == 1..NumFetch
Senders == 1..NumSenders
Retrieves == 1..MaxRetrieves

Backends == {"memory", "sqlite"}
Identities == {"bob"}
IKs == {"ik1", "ik2"}
PreKeys == {"spkA", "spkB"}
OTKs == {"otk1", "otk2"}

\* Sequences over S of length lo..hi.
SeqsOf(S, lo, hi) == UNION {[1..n -> S] : n \in lo..hi}

(***************************************************************************)
(* Bundle signatures.  A signature is the pair (signing identity key,      *)
(* signed concatenation of prekeys); it verifies exactly under that key    *)
(* and over that concatenation.                                            *)
(***************************************************************************)
sign_bundle(ik, pre_keys) == [signer |-> ik, msg |-> pre_keys]

verify_bundle(ik, pre_keys, signature) ==
    signature.signer = ik /\ signature.msg = pre_keys

NoSig == [signer |-> "none", msg |-> <<>>]
NoSpk == [pre_key |-> "none", signature |-> NoSig]

\* Every SignedPreKey a client can submit: the signature may be by either
\* identity key and over either prekey, so most submissions do not verify.
SignedPreKey ==
    {[pre_key |-> p, signature |-> sign_bundle(k, <<q>>)] :
        p \in PreKeys, k \in IKs, q \in PreKeys}

\* Every one-time prekey batch a client can submit: signed by either
\* identity key, over the batch itself or over a different concatenation.
SignedPreKeys ==
    UNION {{[pre_keys |-> b, signature |-> sign_bundle(k, c)] :
                k \in IKs, c \in {b, b \o <<"otk1">>}} :
           b \in SeqsOf(OTKs, 0, MaxBatch)}

(***************************************************************************)
(* HashMap helpers: a map is a function whose domain is its key set.       *)
(***************************************************************************)
EmptyMap == [x \in {} |-> "none"]
Insert(map, k, v) == [x \in DOMAIN map \cup {k} |-> IF x = k THEN v ELSE map[x]]
Remove(map, k) == [x \in DOMAIN map \ {k} |-> map[x]]

\* Vec::pop: the popped (last) element and the remaining vector.
PopLast(v) == SubSeq(v, 1, Len(v) - 1)

VARIABLES
    backend,            \* which server was constructed
    identity_key,       \* identity -> VerifyingKey
    current_pre_key,    \* identity -> SignedPreKey
    one_time_pre_keys,  \* identity -> Vec<X25519PublicKey>
    task,               \* the identity-store request handlers in flight
    fetched             \* history: the (identity, one-time prekey) pairs handed out

VARIABLES
    messages,           \* recipient -> Vec<Message>: the mailboxes
    receivers,          \* recipient -> Sender: the live channels
    chan,               \* the mpsc channels created by retrieve_messages
    stask,              \* the send_message handler of each sending client
    rtask,              \* the retrieve_messages handlers
    stream,             \* history: what the consumer of each retrieve has read
    enqueued,           \* history: the messages that were pushed to a mailbox
    hb,                 \* history: <<m1, m2>> when send m1 returned before send m2 began
    overlap             \* history: <<m, r>> when send m and retrieve r ran concurrently

VARIABLES
    client              \* a MemoryClient: its key material and what its last call returned

store == <<identity_key, current_pre_key, one_time_pre_keys>>
idVars == <<identity_key, current_pre_key, one_time_pre_keys, task, fetched>>
routerVars == <<messages, receivers, chan, stask, rtask, stream, enqueued, hb, overlap>>
vars == <<backend, client, idVars, routerVars>>

Idle ==
    [op |-> "idle", pc |-> "idle", identity |-> "none", ik |-> "none",
     spk |-> NoSpk, otk |-> "none", res |-> "none"]

\* A handler that returned: its result, and for a fetch the PreKeyBundle.
Done(op, res) == [Idle EXCEPT !.op = op, !.pc = "done", !.res = res]


(***************************************************************************)
(* Identity store: set_spk / register_pre_key_bundle.                      *)
(***************************************************************************)

\* Faulty variant of set_spk: the identity key is inserted before the bundle is
\* verified, so a rejected call has already replaced the key.
set_spk_InsertBeforeVerify(t, identity, ik, spk) ==
    /\ task[t].pc = "idle"
    /\ identity_key' = Insert(identity_key, identity, ik)
    /\ task' = [task EXCEPT ![t] =
            IF ~verify_bundle(ik, <<spk.pre_key>>, spk.signature)
            THEN Done("set_spk", "Unauthenticated")
            ELSE [Idle EXCEPT !.op = "set_spk", !.pc = "insert_spk",
                              !.identity = identity, !.spk = spk]]
    /\ UNCHANGED <<backend, client, current_pre_key, one_time_pre_keys, fetched, routerVars>>

\* Verify the signed prekey under the supplied identity key; on failure
\* return the error, otherwise insert the identity key under its own lock.
set_spk(t, identity, ik, spk) ==
    /\ task[t].pc = "idle"
    /\ IF ~verify_bundle(ik, <<spk.pre_key>>, spk.signature)
       THEN /\ task' = [task EXCEPT ![t] = Done("set_spk", "Unauthenticated")]
            /\ UNCHANGED identity_key
       ELSE /\ identity_key' = Insert(identity_key, identity, ik)
            /\ task' = [task EXCEPT ![t] =
                    [Idle EXCEPT !.op = "set_spk", !.pc = "insert_spk",
                                 !.identity = identity, !.spk = spk]]
    /\ UNCHANGED <<backend, client, current_pre_key, one_time_pre_keys, fetched, routerVars>>

\* Faulty variant of SetSpkInsertSpk: the signed prekey is inserted only when
\* the identity has none, so a rotation keeps the old one.
SetSpkInsertSpk_KeepFirst(t) ==
    /\ task[t].pc = "insert_spk"
    /\ current_pre_key' =
           IF task[t].identity \in DOMAIN current_pre_key THEN current_pre_key
           ELSE Insert(current_pre_key, task[t].identity, task[t].spk)
    /\ task' = [task EXCEPT ![t] =
            IF backend = "memory" THEN Done("set_spk", "Ok")
            ELSE [@ EXCEPT !.pc = "clear_otks"]]
    /\ UNCHANGED <<backend, client, identity_key, one_time_pre_keys, fetched, routerVars>>

\* Second lock: insert the signed prekey.  MemoryServer returns here;
\* SqliteBrongnal goes on to clear the one-time prekeys.
SetSpkInsertSpk(t) ==
    /\ task[t].pc = "insert_spk"
    /\ current_pre_key' = Insert(current_pre_key, task[t].identity, task[t].spk)
    /\ task' = [task EXCEPT ![t] =
            IF backend = "memory" THEN Done("set_spk", "Ok")
            ELSE [@ EXCEPT !.pc = "clear_otks"]]
    /\ UNCHANGED <<backend, client, identity_key, one_time_pre_keys, fetched, routerVars>>

\* SqliteBrongnal only: one_time_pre_keys.lock().unwrap().clear() empties
\* the whole map, not one identity's entry.
RegisterClearOtks(t) ==
    /\ task[t].pc = "clear_otks"
    /\ one_time_pre_keys' = EmptyMap
    /\ task' = [task EXCEPT ![t] = Done("set_spk", "Ok")]
    /\ UNCHANGED <<backend, client, identity_key, current_pre_key, fetched, routerVars>>

(***************************************************************************)
(* Identity store: publish_otk_bundle (MemoryServer only; SqliteBrongnal   *)
(* implements no such handler).  One lock is held from try_insert to the   *)
(* end of extend.                                                          *)
(***************************************************************************)
PoolOf(identity) ==
    IF identity \in DOMAIN one_time_pre_keys THEN one_time_pre_keys[identity] ELSE <<>>

publish_otk_bundle(t, identity, ik, otk_bundle) ==
    /\ backend = "memory"
    /\ task[t].pc = "idle"
    /\ IF ~verify_bundle(ik, otk_bundle.pre_keys, otk_bundle.signature)
       THEN /\ task' = [task EXCEPT ![t] = Done("publish_otk_bundle", "Unauthenticated")]
            /\ UNCHANGED one_time_pre_keys
       ELSE /\ Len(PoolOf(identity)) + Len(otk_bundle.pre_keys) <= MaxPool
            /\ one_time_pre_keys' =
                    Insert(one_time_pre_keys, identity, PoolOf(identity) \o otk_bundle.pre_keys)
            /\ task' = [task EXCEPT ![t] = Done("publish_otk_bundle", "Ok")]
    /\ UNCHANGED <<backend, client, identity_key, current_pre_key, fetched, routerVars>>

(***************************************************************************)
(* Identity store: fetch_prekey_bundle / request_pre_keys.  Three locks,   *)
(* taken and released one after the other.                                 *)
(***************************************************************************)
\* Faulty variant of fetch_prekey_bundle: the one-time prekey is popped
\* before the identity key is looked up.
fetch_prekey_bundle_PopFirst(t, recipient_identity) ==
    /\ task[t].pc = "idle"
    /\ one_time_pre_keys' =
           IF PoolOf(recipient_identity) # <<>>
           THEN [one_time_pre_keys EXCEPT ![recipient_identity] = PopLast(@)]
           ELSE one_time_pre_keys
    /\ task' = [task EXCEPT ![t] =
            IF recipient_identity \in DOMAIN identity_key
            THEN [Idle EXCEPT !.op = "fetch_prekey_bundle", !.pc = "read_spk",
                              !.identity = recipient_identity,
                              !.ik = identity_key[recipient_identity]]
            ELSE Done("fetch_prekey_bundle", "NotFound")]
    /\ UNCHANGED <<backend, client, identity_key, current_pre_key, fetched, routerVars>>

fetch_prekey_bundle(t, recipient_identity) ==
    /\ task[t].pc = "idle"
    /\ task' = [task EXCEPT ![t] =
            IF recipient_identity \in DOMAIN identity_key
            THEN [Idle EXCEPT !.op = "fetch_prekey_bundle", !.pc = "read_spk",
                              !.identity = recipient_identity,
                              !.ik = identity_key[recipient_identity]]
            ELSE Done("fetch_prekey_bundle", "NotFound")]
    /\ UNCHANGED <<backend, client, store, fetched, routerVars>>

FetchReadSpk(t) ==
    /\ task[t].pc = "read_spk"
    /\ task' = [task EXCEPT ![t] =
            IF task[t].identity \in DOMAIN current_pre_key
            THEN [@ EXCEPT !.pc = "pop_otk", !.spk = current_pre_key[task[t].identity]]
            ELSE Done("fetch_prekey_bundle", "NotFound")]
    /\ UNCHANGED <<backend, client, store, fetched, routerVars>>

\* Faulty variant of FetchPopOtk: the last key is read but left in the pool.
FetchPopOtk_Peek(t) ==
    LET id == task[t].identity
        some == id \in DOMAIN one_time_pre_keys /\ Len(one_time_pre_keys[id]) > 0
        otk == IF some THEN one_time_pre_keys[id][Len(one_time_pre_keys[id])] ELSE "none"
    IN  /\ task[t].pc = "pop_otk"
        /\ task' = [task EXCEPT ![t] =
               [@ EXCEPT !.pc = "done", !.res = "Ok", !.otk = otk]]
        /\ fetched' = IF some THEN fetched \cup {<<id, otk>>} ELSE fetched
        /\ UNCHANGED <<backend, client, store, routerVars>>

\* Faulty variant of FetchPopOtk: an identity without one-time prekeys is
\* answered with an error instead of a bundle without one.
FetchPopOtk_FailOnEmpty(t) ==
    LET id == task[t].identity
        some == id \in DOMAIN one_time_pre_keys /\ Len(one_time_pre_keys[id]) > 0
        otk == IF some THEN one_time_pre_keys[id][Len(one_time_pre_keys[id])] ELSE "none"
    IN  /\ task[t].pc = "pop_otk"
        /\ one_time_pre_keys' =
               IF some THEN [one_time_pre_keys EXCEPT ![id] = PopLast(@)]
               ELSE one_time_pre_keys
        /\ task' = [task EXCEPT ![t] =
               IF some THEN [@ EXCEPT !.pc = "done", !.res = "Ok", !.otk = otk]
               ELSE Done("fetch_prekey_bundle", "NotFound")]
        /\ fetched' = IF some THEN fetched \cup {<<id, otk>>} ELSE fetched
        /\ UNCHANGED <<backend, client, identity_key, current_pre_key, routerVars>>

\* Third lock: Vec::pop on the identity's pool, if it has one.
FetchPopOtk(t) ==
    LET id == task[t].identity
        some == id \in DOMAIN one_time_pre_keys /\ Len(one_time_pre_keys[id]) > 0
        otk == IF some THEN one_time_pre_keys[id][Len(one_time_pre_keys[id])] ELSE "none"
    IN  /\ task[t].pc = "pop_otk"
        /\ one_time_pre_keys' =
               IF some THEN [one_time_pre_keys EXCEPT ![id] = PopLast(@)]
               ELSE one_time_pre_keys
        /\ task' = [task EXCEPT ![t] =
               [@ EXCEPT !.pc = "done", !.res = "Ok", !.otk = otk]]
        /\ fetched' = IF some THEN fetched \cup {<<id, otk>>} ELSE fetched
        /\ UNCHANGED <<backend, client, identity_key, current_pre_key, routerVars>>

\* The response has been sent; the handler's slot serves the next request.
Return(t) ==
    /\ task[t].pc = "done"
    /\ task' = [task EXCEPT ![t] = Idle]
    /\ UNCHANGED <<backend, client, store, fetched, routerVars>>

(***************************************************************************)
(* MemoryClient: the one-time prekey secrets a client keeps, keyed by      *)
(* their public keys.                                                      *)
(***************************************************************************)
ClientOTKs == OTKs \cup {"otk3"}

\* The secret half of a one-time prekey pair.
SecretOf(k) == CASE k = "otk1" -> "sec1" [] k = "otk2" -> "sec2" [] OTHER -> "sec3"

NoRet == [op |-> "none", ok |-> TRUE, key |-> "none", secret |-> "none",
          pre_keys |-> <<>>, signature |-> NoSig]

\* MemoryClient::new with identity key ik.  wiped is history: the public
\* keys whose secret was handed out and that were not generated since.
NewClient(ik) ==
    [identity_key |-> ik, one_time_pre_keys |-> EmptyMap, wiped |-> {}, ret |-> NoRet]

\* Faulty variant of fetch_wipe_one_time_secret_key: the secret is looked
\* up and cloned, and stays in the map.
fetch_wipe_one_time_secret_key_Get(one_time_key) ==
    LET found == one_time_key \in DOMAIN client.one_time_pre_keys IN
    /\ client' = [client EXCEPT
            !.wiped = IF found THEN @ \cup {one_time_key} ELSE @,
            !.ret = [NoRet EXCEPT !.op = "fetch_wipe_one_time_secret_key",
                                  !.key = one_time_key, !.ok = found,
                                  !.secret = IF found
                                             THEN client.one_time_pre_keys[one_time_key]
                                             ELSE "none"]]
    /\ UNCHANGED <<backend, idVars, routerVars>>

\* HashMap::remove(&one_time_key).context("Client failed to find pre key.")
fetch_wipe_one_time_secret_key(one_time_key) ==
    LET found == one_time_key \in DOMAIN client.one_time_pre_keys IN
    /\ client' = [client EXCEPT
            !.one_time_pre_keys = Remove(@, one_time_key),
            !.wiped = IF found THEN @ \cup {one_time_key} ELSE @,
            !.ret = [NoRet EXCEPT !.op = "fetch_wipe_one_time_secret_key",
                                  !.key = one_time_key, !.ok = found,
                                  !.secret = IF found
                                             THEN client.one_time_pre_keys[one_time_key]
                                             ELSE "none"]]
    /\ UNCHANGED <<backend, idVars, routerVars>>

\* create_prekey_bundle generates num_keys key pairs; each is inserted
\* under its public key and the signed public keys are returned.
add_one_time_keys(num_keys) ==
    \E otks \in SeqsOf(ClientOTKs, num_keys, num_keys) :
        LET generated == {otks[i] : i \in DOMAIN otks} IN
        /\ client' = [client EXCEPT
                !.one_time_pre_keys =
                    [k \in DOMAIN @ \cup generated |->
                        IF k \in generated THEN SecretOf(k) ELSE @[k]],
                !.wiped = @ \ generated,
                !.ret = [NoRet EXCEPT !.op = "add_one_time_keys", !.pre_keys = otks,
                                      !.signature = sign_bundle(client.identity_key, otks)]]
        /\ UNCHANGED <<backend, idVars, routerVars>>

(***************************************************************************)
(* Router state after construction (refined below).                        *)
(***************************************************************************)
SendIdle(n) == [pc |-> "idle", n |-> n, recipient |-> "none", tx |-> 0]
RetrieveIdle == [pc |-> "idle", identity |-> "none", drain |-> <<>>, prior |-> 0]

RouterInit ==
    /\ messages = EmptyMap
    /\ receivers = EmptyMap
    /\ chan = EmptyMap
    /\ stask = [s \in Senders |-> SendIdle(0)]
    /\ rtask = [r \in Retrieves |-> RetrieveIdle]
    /\ stream = [r \in Retrieves |-> <<>>]
    /\ enqueued = {}
    /\ hb = {}
    /\ overlap = {}

(***************************************************************************)
(* Spec: the identity store under concurrent requests.                     *)
(***************************************************************************)
Init ==
    /\ backend \in Backends
    /\ identity_key = EmptyMap
    /\ current_pre_key = EmptyMap
    /\ one_time_pre_keys = EmptyMap
    /\ task = [t \in Tasks |-> Idle]
    /\ fetched = {}
    /\ client = NewClient("ik1")
    /\ RouterInit

Next ==
    \E t \in Tasks :
        \/ \E id \in Identities, ik \in IKs, spk \in SignedPreKey : set_spk(t, id, ik, spk)
        \/ SetSpkInsertSpk(t)
        \/ RegisterClearOtks(t)
        \/ \E id \in Identities, ik \in IKs, b \in SignedPreKeys : publish_otk_bundle(t, id, ik, b)
        \/ \E id \in Identities : fetch_prekey_bundle(t, id)
        \/ FetchReadSpk(t)
        \/ FetchPopOtk(t)
        \/ Return(t)

Spec == Init /\ [][Next]_vars

(***************************************************************************)
(* FetchSpec: NumFetch concurrent fetch_prekey_bundle calls against a      *)
(* registered identity whose pool holds M <= NumFetch one-time prekeys,    *)
(* with no set_spk or publish_otk_bundle running.  SqliteBrongnal never    *)
(* fills a pool, so there only the empty map is a state it can be in.      *)
(***************************************************************************)
FetchInit ==
    /\ backend \in Backends
    /\ \E ik \in IKs, p \in PreKeys :
          /\ identity_key = Insert(EmptyMap, "bob", ik)
          /\ current_pre_key =
                Insert(EmptyMap, "bob", [pre_key |-> p, signature |-> sign_bundle(ik, <<p>>)])
    /\ one_time_pre_keys \in
          {EmptyMap} \cup
          (IF backend = "memory"
           THEN {Insert(EmptyMap, "bob", pool) : pool \in SeqsOf(OTKs, 0, NumFetch)}
           ELSE {})
    /\ task = [t \in FetchTasks |-> Idle]
    /\ fetched = {}
    /\ client = NewClient("ik1")
    /\ RouterInit

FetchNext ==
    \E t \in FetchTasks :
        \/ fetch_prekey_bundle(t, "bob")
        \/ FetchReadSpk(t)
        \/ FetchPopOtk(t)

FetchSpec == FetchInit /\ [][FetchNext]_vars

(***************************************************************************)
(* Message router.  A message is named by its sending client and the       *)
(* position of the send in that client's sequence of sends: a client       *)
(* starts its next send only after the previous one returned.              *)
(***************************************************************************)
Msg(s, n) == [sender |-> s, seq |-> n]

\* The sends that have returned, the sends and the retrieves in progress.
Completed ==
    {Msg(s, k) : s \in Senders, k \in 1..MaxSeq} \cap
    UNION {{Msg(s, k) : k \in 1..(IF stask[s].pc = "idle" THEN stask[s].n ELSE stask[s].n - 1)} :
           s \in Senders}
InFlightSends == {Msg(s, stask[s].n) : s \in {x \in Senders : stask[x].pc # "idle"}}
RunningRetrieves == {r \in Retrieves : rtask[r].pc \notin {"idle", "done"}}

MailboxOf(identity) ==
    IF identity \in DOMAIN messages THEN messages[identity] ELSE <<>>

\* messages.contains_key / insert(Vec::new()) / get_mut().push(message)
Push(identity, m) == Insert(messages, identity, Append(MailboxOf(identity), m))

(***************************************************************************)
(* SqliteBrongnal::send_message.                                           *)
(***************************************************************************)

\* Take the receivers lock and clone the recipient's Sender, if any.
send_message(s, recipient_identity) ==
    LET m == Msg(s, stask[s].n + 1)
        tx == IF recipient_identity \in DOMAIN receivers
              THEN receivers[recipient_identity] ELSE 0
    IN  /\ backend = "sqlite"
        /\ stask[s].pc = "idle"
        /\ stask[s].n < MaxSeq
        /\ stask' = [stask EXCEPT ![s] =
               [pc |-> IF tx # 0 THEN "tx_send" ELSE "enqueue", n |-> stask[s].n + 1,
                recipient |-> recipient_identity, tx |-> tx]]
        /\ hb' = hb \cup {<<m0, m>> : m0 \in Completed}
        /\ overlap' = overlap \cup {<<m, r>> : r \in RunningRetrieves}
        /\ UNCHANGED <<backend, client, idVars, messages, receivers, chan, rtask, stream, enqueued>>

\* Faulty variant of SendTx: the handler does not return after a successful
\* tx.send and goes on to the mailbox.
SendTx_FallThrough(s) ==
    LET c == stask[s].tx IN
    /\ stask[s].pc = "tx_send"
    /\ IF chan[c].rx = "dropped"
       THEN /\ stask' = [stask EXCEPT ![s].pc = "detach"]
            /\ UNCHANGED chan
       ELSE /\ Len(chan[c].buf) < ChanCap
            /\ chan' = [chan EXCEPT ![c].buf = Append(@, Msg(s, stask[s].n))]
            /\ stask' = [stask EXCEPT ![s].pc = "enqueue"]
    /\ UNCHANGED <<backend, client, idVars, messages, receivers, rtask, stream, enqueued, hb, overlap>>

\* tx.send(..).await: an error once the receiver half is gone, success
\* once the bounded buffer has room, and suspended until one of the two.
SendTx(s) ==
    LET c == stask[s].tx IN
    /\ stask[s].pc = "tx_send"
    /\ IF chan[c].rx = "dropped"
       THEN /\ stask' = [stask EXCEPT ![s].pc = "detach"]
            /\ UNCHANGED chan
       ELSE /\ Len(chan[c].buf) < ChanCap
            /\ chan' = [chan EXCEPT ![c].buf = Append(@, Msg(s, stask[s].n))]
            /\ stask' = [stask EXCEPT ![s] = SendIdle(stask[s].n)]
    /\ UNCHANGED <<backend, client, idVars, messages, receivers, rtask, stream, enqueued, hb, overlap>>

\* Faulty variant of SendDetach: after removing the channel the handler
\* returns the send error instead of going on to the mailbox.
SendDetach_ReturnErr(s) ==
    /\ stask[s].pc = "detach"
    /\ receivers' = Remove(receivers, stask[s].recipient)
    /\ stask' = [stask EXCEPT ![s] = SendIdle(stask[s].n)]
    /\ UNCHANGED <<backend, client, idVars, messages, chan, rtask, stream, enqueued, hb, overlap>>

\* self.receivers.lock().unwrap().remove(&recipient_identity)
SendDetach(s) ==
    /\ stask[s].pc = "detach"
    /\ receivers' = Remove(receivers, stask[s].recipient)
    /\ stask' = [stask EXCEPT ![s].pc = "enqueue"]
    /\ UNCHANGED <<backend, client, idVars, messages, chan, rtask, stream, enqueued, hb, overlap>>

\* Faulty variant of SendEnqueue: the message is put at the front of the mailbox.
SendEnqueue_PushFront(s) ==
    /\ stask[s].pc = "enqueue"
    /\ messages' = Insert(messages, stask[s].recipient,
                          <<Msg(s, stask[s].n)>> \o MailboxOf(stask[s].recipient))
    /\ enqueued' = enqueued \cup {Msg(s, stask[s].n)}
    /\ stask' = [stask EXCEPT ![s] = SendIdle(stask[s].n)]
    /\ UNCHANGED <<backend, client, idVars, receivers, chan, rtask, stream, hb, overlap>>

\* Take the messages lock and push onto the recipient's mailbox.
SendEnqueue(s) ==
    /\ stask[s].pc = "enqueue"
    /\ messages' = Push(stask[s].recipient, Msg(s, stask[s].n))
    /\ enqueued' = enqueued \cup {Msg(s, stask[s].n)}
    /\ stask' = [stask EXCEPT ![s] = SendIdle(stask[s].n)]
    /\ UNCHANGED <<backend, client, idVars, receivers, chan, rtask, stream, hb, overlap>>

(***************************************************************************)
(* SqliteBrongnal::retrieve_messages.  The channel of the r-th retrieve    *)
(* is channel r.                                                           *)
(***************************************************************************)

\* Faulty variant of retrieve_messages: the mailbox is cloned and stays in
\* the map.
retrieve_messages_Clone(r, identity) ==
    /\ backend = "sqlite"
    /\ rtask[r].pc = "idle"
    /\ \A r0 \in Retrieves : r0 < r => rtask[r0].pc # "idle"
    /\ chan' = Insert(chan, r, [buf |-> <<>>, rx |-> "handler"])
    /\ rtask' = [rtask EXCEPT ![r] =
            [pc |-> "drain", identity |-> identity, drain |-> MailboxOf(identity), prior |-> 0]]
    /\ overlap' = overlap \cup {<<m, r>> : m \in InFlightSends}
    /\ UNCHANGED <<backend, client, idVars, messages, receivers, stask, stream, enqueued, hb>>

\* mpsc::channel(4), then take the messages lock and remove the mailbox.
retrieve_messages(r, identity) ==
    /\ backend = "sqlite"
    /\ rtask[r].pc = "idle"
    /\ \A r0 \in Retrieves : r0 < r => rtask[r0].pc # "idle"
    /\ chan' = Insert(chan, r, [buf |-> <<>>, rx |-> "handler"])
    /\ rtask' = [rtask EXCEPT ![r] =
            [pc |-> "drain", identity |-> identity, drain |-> MailboxOf(identity), prior |-> 0]]
    /\ messages' = Remove(messages, identity)
    /\ overlap' = overlap \cup {<<m, r>> : m \in InFlightSends}
    /\ UNCHANGED <<backend, client, idVars, receivers, stask, stream, enqueued, hb>>

\* One turn of the loop: tx.send(Ok(message.into())).await.  The handler
\* still holds the receiver half, so the send cannot fail; it suspends
\* while the buffer is full.
RetrDrain(r) ==
    /\ rtask[r].pc = "drain"
    /\ rtask[r].drain # <<>>
    /\ Len(chan[r].buf) < ChanCap
    /\ chan' = [chan EXCEPT ![r].buf = Append(@, Head(rtask[r].drain))]
    /\ rtask' = [rtask EXCEPT ![r].drain = Tail(@)]
    /\ UNCHANGED <<backend, client, idVars, messages, receivers, stask, stream, enqueued, hb, overlap>>

\* After the loop: take the receivers lock, insert the Sender (replacing
\* the one that was there) and return the receiver half as the stream.
RetrInstall(r) ==
    LET id == rtask[r].identity IN
    /\ rtask[r].pc = "drain"
    /\ rtask[r].drain = <<>>
    /\ receivers' = Insert(receivers, id, r)
    /\ chan' = [chan EXCEPT ![r].rx = "consumer"]
    /\ rtask' = [rtask EXCEPT ![r].pc = "done",
                              ![r].prior = IF id \in DOMAIN receivers THEN receivers[id] ELSE 0]
    /\ UNCHANGED <<backend, client, idVars, messages, stask, stream, enqueued, hb, overlap>>

(***************************************************************************)
(* The consumer of a returned stream.                                      *)
(***************************************************************************)
Recv(r) ==
    /\ r \in DOMAIN chan
    /\ chan[r].rx = "consumer"
    /\ chan[r].buf # <<>>
    /\ stream' = [stream EXCEPT ![r] = Append(@, Head(chan[r].buf))]
    /\ chan' = [chan EXCEPT ![r].buf = Tail(@)]
    /\ UNCHANGED <<backend, client, idVars, messages, receivers, stask, rtask, enqueued, hb, overlap>>

\* The consumer goes away: the receiver half is dropped with what it held.
Disconnect(r) ==
    /\ r \in DOMAIN chan
    /\ chan[r].rx = "consumer"
    /\ chan' = [chan EXCEPT ![r] = [buf |-> <<>>, rx |-> "dropped"]]
    /\ UNCHANGED <<backend, client, idVars, messages, receivers, stask, rtask, stream, enqueued, hb, overlap>>

(***************************************************************************)
(* MemoryServer::send_message and retrieve_messages: each holds the        *)
(* messages lock from its first statement to its return.                   *)
(***************************************************************************)
memory_send_message(s, recipient_identity) ==
    LET m == Msg(s, stask[s].n + 1) IN
    /\ backend = "memory"
    /\ stask[s].pc = "idle"
    /\ stask[s].n < MaxSeq
    /\ messages' = Push(recipient_identity, m)
    /\ enqueued' = enqueued \cup {m}
    /\ hb' = hb \cup {<<m0, m>> : m0 \in Completed}
    /\ stask' = [stask EXCEPT ![s] = SendIdle(stask[s].n + 1)]
    /\ UNCHANGED <<backend, client, idVars, receivers, chan, rtask, stream, overlap>>

\* The removed Vec is the response: the caller has all of it at once.
memory_retrieve_messages(r, identity) ==
    /\ backend = "memory"
    /\ rtask[r].pc = "idle"
    /\ \A r0 \in Retrieves : r0 < r => rtask[r0].pc # "idle"
    /\ stream' = [stream EXCEPT ![r] = MailboxOf(identity)]
    /\ messages' = Remove(messages, identity)
    /\ rtask' = [rtask EXCEPT ![r] = [RetrieveIdle EXCEPT !.pc = "done", !.identity = identity]]
    /\ UNCHANGED <<backend, client, idVars, receivers, chan, stask, enqueued, hb, overlap>>

(***************************************************************************)
(* RouterSpec: the router under concurrent sends, retrieves and consumers. *)
(***************************************************************************)
RouterNext ==
    \/ \E s \in Senders :
          \/ \E id \in Identities : send_message(s, id)
          \/ SendTx(s)
          \/ SendDetach(s)
          \/ SendEnqueue(s)
          \/ \E id \in Identities : memory_send_message(s, id)
    \/ \E r \in Retrieves :
          \/ \E id \in Identities : retrieve_messages(r, id)
          \/ RetrDrain(r)
          \/ RetrInstall(r)
          \/ Recv(r)
          \/ Disconnect(r)
          \/ \E id \in Identities : memory_retrieve_messages(r, id)

RouterSpec == Init /\ [][RouterNext]_vars

(***************************************************************************)
(* Properties of the identity store.                                       *)
(***************************************************************************)

\* A fetch handler t completes its pop in this step and hands out a key.
PopsOtk(t) ==
    task[t].pc = "pop_otk" /\ task'[t].pc = "done" /\ task'[t].otk # "none"

\* C1: no one-time prekey value is returned by two different
\* fetch_prekey_bundle calls on an identity: a fetch never hands out a
\* value that an earlier fetch already handed out.
C1_OtkReturnedAtMostOnce ==
    [][\A t \in DOMAIN task :
          PopsOtk(t) => <<task[t].identity, task'[t].otk>> \notin fetched]_vars

FetchesDone == \A t \in DOMAIN task : task[t].pc = "done"
SomeCount == Cardinality({t \in DOMAIN task : task[t].pc = "done" /\ task[t].otk # "none"})
NoneCount ==
    Cardinality({t \in DOMAIN task :
                    task[t].pc = "done" /\ task[t].res = "Ok" /\ task[t].otk = "none"})

\* C2: N concurrent fetches against a pool of M <= N one-time prekeys:
\* every key that leaves the pool is returned by exactly one fetch (pool
\* size plus fetches that got a key stays M), and once all N fetches have
\* returned the pool is empty and every fetch succeeded, so exactly M got
\* Some(_) and the other N - M got None.
C2_ExactlyMFetchesGetOtk ==
    /\ [][Len(PoolOf("bob"))' + SomeCount' = Len(PoolOf("bob")) + SomeCount]_vars
    /\ [](FetchesDone =>
            /\ PoolOf("bob") = <<>>
            /\ SomeCount + NoneCount = NumFetch)

\* C2 witness: all fetches returned, some with a key and some without.
C2_Witness == FetchesDone /\ SomeCount >= 1 /\ NoneCount >= 1

\* C7: publish_otk_bundle with a verifying batch for an identity that has
\* no identity key fails with UnknownIdentity and creates no pool.
C7_PublishUnregisteredFails ==
    [][\A t \in DOMAIN task :
          (task[t].pc = "idle" /\ task'[t].op = "publish_otk_bundle") =>
             \A id \in Identities \ DOMAIN identity_key, ik \in IKs, b \in SignedPreKeys :
                (/\ verify_bundle(ik, b.pre_keys, b.signature)
                 /\ publish_otk_bundle(t, id, ik, b))
                => (task'[t].res = "UnknownIdentity" /\ id \notin DOMAIN one_time_pre_keys')]_vars

\* C8: a set_spk or publish_otk_bundle call whose signature does not verify
\* under the supplied identity key is rejected with Unauthenticated and
\* leaves the identity-key map, the signed-prekey map and the pools as
\* they were.
C8_BadSignatureRejected ==
    [][\A t \in DOMAIN task :
          (task[t].pc = "idle" /\ task'[t].pc # "idle") =>
             \A id \in Identities, ik \in IKs :
                /\ \A spk \in SignedPreKey :
                      (/\ ~verify_bundle(ik, <<spk.pre_key>>, spk.signature)
                       /\ set_spk(t, id, ik, spk))
                      => (task'[t].res = "Unauthenticated" /\ UNCHANGED store)
                /\ \A b \in SignedPreKeys :
                      (/\ ~verify_bundle(ik, b.pre_keys, b.signature)
                       /\ publish_otk_bundle(t, id, ik, b))
                      => (task'[t].res = "Unauthenticated" /\ UNCHANGED store)]_vars

\* C8 witness: with an identity registered and a pool published, a set_spk
\* and a publish_otk_bundle have both been rejected.
C8_Witness ==
    /\ DOMAIN current_pre_key # {}
    /\ \E id \in DOMAIN one_time_pre_keys : one_time_pre_keys[id] # <<>>
    /\ \E t \in DOMAIN task :
          task[t] = Done("set_spk", "Unauthenticated")
    /\ \E t \in DOMAIN task :
          task[t] = Done("publish_otk_bundle", "Unauthenticated")

\* C9: once an identity has an identity key, no step changes it.
C9_IdentityKeyNeverChanges ==
    [][\A id \in DOMAIN identity_key :
          id \in DOMAIN identity_key' /\ identity_key'[id] = identity_key[id]]_vars

\* C10: in every state the stored signed prekey of an identity verifies
\* under the identity key stored for that identity.
C10_StoredSpkVerifiesUnderStoredIk ==
    \A id \in DOMAIN identity_key \cap DOMAIN current_pre_key :
        verify_bundle(identity_key[id], <<current_pre_key[id].pre_key>>,
                      current_pre_key[id].signature)

(***************************************************************************)
(* Properties of the message router.                                       *)
(***************************************************************************)
Msgs == {Msg(s, k) : s \in Senders, k \in 1..MaxSeq}
Holds(seq, m) == \E i \in DOMAIN seq : seq[i] = m
Pos(seq, m) == CHOOSE i \in DOMAIN seq : seq[i] = m
Before(seq, m1, m2) == (Holds(seq, m1) /\ Holds(seq, m2)) => Pos(seq, m1) < Pos(seq, m2)
BufOf(r) == IF r \in DOMAIN chan THEN chan[r].buf ELSE <<>>

Indexes(seq, m) == {i \in DOMAIN seq : seq[i] = m}

\* Every place of the router and of the consumers that holds a copy of m:
\* a mailbox slot, a slot of a channel buffer, a slot of the Vec a retrieve
\* is draining, or a position in what a consumer has read.
Places(m) ==
    UNION {{<<"mailbox", id, i>> : i \in Indexes(messages[id], m)} : id \in DOMAIN messages}
    \cup UNION {{<<"channel", r, i>> : i \in Indexes(BufOf(r), m)} : r \in Retrieves}
    \cup UNION {{<<"drain", r, i>> : i \in Indexes(rtask[r].drain, m)} : r \in Retrieves}
    \cup UNION {{<<"stream", r, i>> : i \in Indexes(stream[r], m)} : r \in Retrieves}

\* What appears on the stream of retrieve r: read already, or buffered.
OnStream(r) == stream[r] \o BufOf(r)

\* What retrieve r yields from the mailbox it removed, in order.
Yield(r) == stream[r] \o BufOf(r) \o rtask[r].drain

NoDisconnect == \A r \in DOMAIN chan : chan[r].rx # "dropped"

\* C3: a send that ran concurrently with a retrieve and has returned is,
\* once that retrieve has returned its stream (and no consumer has gone
\* away), on exactly one of the prior stream and the new stream.
C3_ConcurrentSendOnPriorOrNewStream ==
    \A p \in overlap :
        LET m == p[1]
            r == p[2]
            prior == rtask[r].prior
        IN  (m \in Completed /\ rtask[r].pc = "done" /\ NoDisconnect) =>
               Cardinality(Indexes(OnStream(r), m))
               + (IF prior # 0 THEN Cardinality(Indexes(OnStream(prior), m)) ELSE 0) = 1

\* C4: a message is in at most one place: never in a mailbox and on a
\* channel at once, never twice in either, never read by consumers twice.
C4_MessageInAtMostOnePlace ==
    \A m \in Msgs : Cardinality(Places(m)) <= 1

\* C4 witness: one message waits in the mailbox, another is buffered on the
\* live channel and a third has been read by the consumer.
C4_Witness ==
    \E m1, m2, m3 \in Msgs :
        /\ \E id \in DOMAIN messages : Holds(messages[id], m1)
        /\ \E r \in Retrieves : Holds(BufOf(r), m2) /\ chan[r].rx = "consumer"
        /\ \E r \in Retrieves : Holds(stream[r], m3)

\* C5: when send m1 returned before send m2 began and both were pushed to
\* the mailbox, m1 is ahead of m2 in the mailbox, a retrieve that yields
\* both yields m1 first, and m2 is not yielded while m1 is left behind.
C5_MailboxFifo ==
    \A p \in hb :
        (p[1] \in enqueued /\ p[2] \in enqueued) =>
            /\ \A id \in DOMAIN messages : Before(messages[id], p[1], p[2])
            /\ \A r \in Retrieves :
                  /\ Before(Yield(r), p[1], p[2])
                  /\ Holds(Yield(r), p[2]) =>
                        \A id \in DOMAIN messages : ~Holds(messages[id], p[1])

\* C5 witness: on SqliteBrongnal, two messages of different senders, the
\* first send returned before the second began, both enqueued, both read
\* from the stream of one retrieve.
C5_Witness ==
    \E p \in hb :
        /\ backend = "sqlite"
        /\ p[1].sender # p[2].sender
        /\ p[1] \in enqueued /\ p[2] \in enqueued
        /\ \E r \in Retrieves : Holds(stream[r], p[1]) /\ Holds(stream[r], p[2])

\* The stream of retrieve r is the one its recipient's live channel feeds.
Live(r) == \E id \in DOMAIN receivers : receivers[id] = r

\* C6: the recipient never receives a message of a sender after a later
\* message of that sender.  The recipient is taken to read the stream of
\* its live channel: a message read there is later, in its sender's
\* order, than every message of that sender read before it.
C6_PerSenderFifo ==
    [][\A r \in Retrieves :
          (Live(r) /\ Len(stream'[r]) = Len(stream[r]) + 1) =>
             LET m == stream'[r][Len(stream'[r])] IN
             \A r2 \in Retrieves : \A j \in DOMAIN stream[r2] :
                stream[r2][j].sender = m.sender => stream[r2][j].seq < m.seq]_vars

(***************************************************************************)
(* Properties of fetch_prekey_bundle and of signed prekey rotation.        *)
(***************************************************************************)

\* C11: a fetch on a registered identity whose pool is empty or absent
\* succeeds: it returns the identity key and the signed prekey it read from
\* the store, with no one-time prekey, and leaves the pools as they were.
C11_FetchWithoutOtkSucceeds ==
    [][\A t \in DOMAIN task :
          /\ (task[t].pc = "idle" /\ task'[t].pc = "read_spk") =>
                task'[t].ik = identity_key[task'[t].identity]
          /\ (task[t].pc = "read_spk" /\ task'[t].pc = "pop_otk") =>
                task'[t].spk = current_pre_key[task[t].identity]
          /\ (task[t].pc = "pop_otk" /\ task'[t].pc # "pop_otk"
                 /\ PoolOf(task[t].identity) = <<>>) =>
                /\ task'[t] = [task[t] EXCEPT !.pc = "done", !.res = "Ok"]
                /\ task'[t].otk = "none"
                /\ task'[t].ik \in IKs
                /\ task'[t].spk \in SignedPreKey
                /\ one_time_pre_keys' = one_time_pre_keys]_vars

\* C11 witness: a fetch returned a bundle without a one-time prekey for an
\* identity whose pool exists and is empty.
C11_Witness ==
    \E t \in DOMAIN task :
        /\ task[t].op = "fetch_prekey_bundle" /\ task[t].pc = "done"
        /\ task[t].res = "Ok" /\ task[t].otk = "none"
        /\ task[t].ik \in IKs /\ task[t].spk \in SignedPreKey
        /\ task[t].identity \in DOMAIN one_time_pre_keys
        /\ PoolOf(task[t].identity) = <<>>

\* C12: a fetch on an identity that has no identity key, or no signed
\* prekey, fails with the unknown-identity error and leaves every pool as
\* it was.
C12_FetchUnregisteredFails ==
    [][\A t \in DOMAIN task :
          /\ \A id \in Identities \ DOMAIN identity_key :
                fetch_prekey_bundle(t, id) =>
                   (task'[t] = Done("fetch_prekey_bundle", "NotFound") /\ UNCHANGED store)
          /\ (FetchReadSpk(t) /\ task[t].identity \notin DOMAIN current_pre_key) =>
                (task'[t] = Done("fetch_prekey_bundle", "NotFound") /\ UNCHANGED store)]_vars

\* C12 witness: a fetch failed for an identity that has no identity key
\* while a pool with one-time prekeys exists under that identity.
C12_Witness ==
    \E t \in DOMAIN task, id \in Identities :
        /\ task[t] = Done("fetch_prekey_bundle", "NotFound")
        /\ id \notin DOMAIN identity_key
        /\ PoolOf(id) # <<>>

(***************************************************************************)
(* RotateSpec: one client registers "bob" with signed prekey spkA and,     *)
(* when that call has returned, rotates to spkB under the same identity    *)
(* key; fetches begin only after the second set_spk has returned.  In     *)
(* between the client may publish one batch of one-time prekeys.  Slot -1  *)
(* serves the first set_spk, slot -2 the publish, slot 0 the second        *)
(* set_spk, the slots of FetchTasks the fetches.                           *)
(***************************************************************************)
RotateTasks == {-2, -1, 0} \cup FetchTasks

Signed(ik, p) == [pre_key |-> p, signature |-> sign_bundle(ik, <<p>>)]

Rotated == task[-1] = Done("set_spk", "Ok") /\ task[0] = Done("set_spk", "Ok")

RotateInit ==
    /\ backend \in Backends
    /\ identity_key = EmptyMap
    /\ current_pre_key = EmptyMap
    /\ one_time_pre_keys = EmptyMap
    /\ task = [t \in RotateTasks |-> Idle]
    /\ fetched = {}
    /\ client = NewClient("ik1")
    /\ RouterInit

RotateNext ==
    \/ \E ik \in IKs : set_spk(-1, "bob", ik, Signed(ik, "spkA"))
    \/ /\ task[-1] = Done("set_spk", "Ok")
       /\ task[0].pc = "idle"
       /\ \E b \in SignedPreKeys : publish_otk_bundle(-2, "bob", identity_key["bob"], b)
    \/ /\ task[-1] = Done("set_spk", "Ok")
       /\ set_spk(0, "bob", identity_key["bob"], Signed(identity_key["bob"], "spkB"))
    \/ \E t \in {-1, 0} : SetSpkInsertSpk(t) \/ RegisterClearOtks(t)
    \/ \E t \in FetchTasks :
          \/ Rotated /\ fetch_prekey_bundle(t, "bob")
          \/ FetchReadSpk(t)
          \/ FetchPopOtk(t)

RotateSpec == RotateInit /\ [][RotateNext]_vars

\* C13: after set_spk(id, ik, spkA) and then set_spk(id, ik, spkB) have
\* both returned, every fetch that begins later succeeds and returns spkB,
\* never spkA.
C13_FetchReturnsRotatedSpk ==
    \A t \in FetchTasks :
        /\ task[t].pc \in {"pop_otk", "done"} =>
              task[t].spk = Signed(identity_key["bob"], "spkB")
        /\ task[t].pc = "done" => task[t].res = "Ok"

\* C13 witness: both set_spk calls returned and every fetch has returned
\* the rotated signed prekey.
C13_Witness ==
    /\ Rotated
    /\ \A t \in FetchTasks :
          task[t].pc = "done" /\ task[t].res = "Ok" /\ task[t].spk.pre_key = "spkB"

\* C14: when a set_spk on an identity that is already registered has
\* returned, that identity's pool is empty, and a fetch that follows
\* returns no one-time prekey.
C14_RotationLeavesPoolEmpty ==
    Rotated =>
        /\ \A t \in FetchTasks : task[t].pc = "done" => task[t].otk = "none"
        /\ (\A t \in FetchTasks : task[t].pc = "idle") => PoolOf("bob") = <<>>

(***************************************************************************)
(* Properties of the send fallback and of retrieve.                        *)
(***************************************************************************)

C16_DetachKeepsFreshChannel ==
    [][\A s \in Senders :
          LET to == stask[s].recipient IN
          /\ (stask[s].pc = "enqueue" /\ stask'[s].pc = "idle")
                => Msg(s, stask[s].n) \notin enqueued
          /\ (/\ stask[s].pc = "detach" /\ stask'[s].pc = "enqueue"
              /\ to \in DOMAIN receivers
              /\ receivers[to] # stask[s].tx)
                => (to \in DOMAIN receivers' /\ receivers'[to] = receivers[to])]_vars

\* The retrieves that took m out of a mailbox and still hold or have
\* delivered it.
TakenBy(m) == {r \in Retrieves : Holds(Yield(r), m)}

EndsWith(pool, b) ==
    /\ Len(pool) >= Len(b)
    /\ SubSeq(pool, Len(pool) - Len(b) + 1, Len(pool)) = b

\* C17: publish_otk_bundle is idempotent: publishing a verified batch that
\* was just applied to the pool (the retry of a call) leaves the pool as
\* the first application left it, so no key of the batch is in it twice.
C17_PublishIdempotent ==
    [][\A t \in DOMAIN task :
          (task[t].pc = "idle" /\ task'[t].op = "publish_otk_bundle") =>
             \A id \in Identities, ik \in IKs, b \in SignedPreKeys :
                (/\ verify_bundle(ik, b.pre_keys, b.signature)
                 /\ b.pre_keys # <<>>
                 /\ EndsWith(PoolOf(id), b.pre_keys)
                 /\ publish_otk_bundle(t, id, ik, b))
                => one_time_pre_keys' = one_time_pre_keys]_vars

(***************************************************************************)
(* ClientSpec: a MemoryClient that generates one-time prekeys and looks    *)
(* their secrets up, in any order.  The server is not involved.            *)
(***************************************************************************)
ClientInit ==
    /\ backend = "memory"
    /\ identity_key = EmptyMap
    /\ current_pre_key = EmptyMap
    /\ one_time_pre_keys = EmptyMap
    /\ task = [t \in Tasks |-> Idle]
    /\ fetched = {}
    /\ client \in {NewClient(ik) : ik \in IKs}
    /\ RouterInit

ClientNext ==
    \/ \E num_keys \in 0..MaxBatch : add_one_time_keys(num_keys)
    \/ \E k \in ClientOTKs : fetch_wipe_one_time_secret_key(k)

ClientSpec == ClientInit /\ [][ClientNext]_vars

\* The call that ended in the current state was fetch_wipe_one_time_secret_key(k).
Wiped(k) == client.ret.op = "fetch_wipe_one_time_secret_key" /\ client.ret.key = k

\* C19: a one-time prekey secret is handed out once: a successful
\* fetch_wipe_one_time_secret_key(k) returns the secret of k and removes
\* it, and every later call for k fails until k is generated again.
C19_OtkSecretUsedOnce ==
    [][\A k \in ClientOTKs :
          (client' # client /\ Wiped(k)') =>
             /\ client'.ret.ok =>
                   /\ client'.ret.secret = SecretOf(k)
                   /\ k \notin DOMAIN client'.one_time_pre_keys
                   /\ k \notin client.wiped
             /\ k \in client.wiped => ~client'.ret.ok]_vars

\* C19 witness: the last call asked again for a key whose secret had been
\* handed out, and failed.
C19_Witness ==
    /\ client.ret.op = "fetch_wipe_one_time_secret_key"
    /\ ~client.ret.ok
    /\ client.ret.key \in client.wiped

(***************************************************************************)
(* BacklogSpec: retrieves on SqliteBrongnal when the recipient's mailbox   *)
(* already holds a backlog: an earlier client (sender 0) sent k messages   *)
(* while the recipient had no live channel, k up to one more than the      *)
(* channel holds.                                                          *)
(***************************************************************************)
BacklogSizes == 0..(ChanCap + 1)

Backlog(k) == [i \in 1..k |-> Msg(0, i)]

BacklogInit ==
    /\ backend = "sqlite"
    /\ identity_key = EmptyMap
    /\ current_pre_key = EmptyMap
    /\ one_time_pre_keys = EmptyMap
    /\ task = [t \in Tasks |-> Idle]
    /\ fetched = {}
    /\ client = NewClient("ik1")
    /\ \E k \in BacklogSizes :
          /\ messages = IF k = 0 THEN EmptyMap ELSE Insert(EmptyMap, "bob", Backlog(k))
          /\ enqueued = {Msg(0, i) : i \in 1..k}
          /\ hb = {<<Msg(0, p[1]), Msg(0, p[2])>> :
                     p \in {q \in (1..k) \X (1..k) : q[1] < q[2]}}
    /\ receivers = EmptyMap
    /\ chan = EmptyMap
    /\ stask = [s \in Senders |-> SendIdle(0)]
    /\ rtask = [r \in Retrieves |-> RetrieveIdle]
    /\ stream = [r \in Retrieves |-> <<>>]
    /\ overlap = {}

BacklogNext ==
    \E r \in Retrieves :
        \/ retrieve_messages(r, "bob")
        \/ RetrDrain(r)
        \/ RetrInstall(r)
        \/ Recv(r)
        \/ Disconnect(r)

BacklogSpec == BacklogInit /\ [][BacklogNext]_vars

\* The handler of retrieve r is suspended in its loop and nothing can wake
\* it: the buffer is full and the handler itself holds the receiver half,
\* which no consumer can read before the handler returns it.
BlockedForever(r) ==
    /\ rtask[r].pc = "drain"
    /\ chan[r].rx = "handler"
    /\ ~ENABLED (RetrDrain(r) \/ RetrInstall(r))

\* C20: retrieve_messages terminates whatever the size of the mailbox: its
\* handler is never suspended for good before it returns the stream.
C20_RetrieveTerminates ==
    \A r \in Retrieves : ~BlockedForever(r)

(***************************************************************************)
(* FrameSpec: two identities on one server, with concurrent set_spk and    *)
(* publish_otk_bundle calls for either.  SqliteBrongnal's request_pre_keys *)
(* pops from self.one_time_pre_keys, but the source holds no handler that  *)
(* fills that map; the publish operation of the identity store is taken    *)
(* from its description: verify the batch under ik, fail with              *)
(* UnknownIdentity when the identity does not exist, else append the keys  *)
(* to the identity's pool.                                                 *)
(***************************************************************************)
FrameIdentities == {"alice", "bob"}

\* A batch of one one-time prekey, signed with ik.
Batch(ik, k) == [pre_keys |-> <<k>>, signature |-> sign_bundle(ik, <<k>>)]

sqlite_publish_otk_bundle(t, identity, ik, otk_bundle) ==
    /\ backend = "sqlite"
    /\ task[t].pc = "idle"
    /\ IF ~verify_bundle(ik, otk_bundle.pre_keys, otk_bundle.signature)
       THEN /\ task' = [task EXCEPT ![t] = Done("publish_otk_bundle", "Unauthenticated")]
            /\ UNCHANGED one_time_pre_keys
       ELSE IF identity \notin DOMAIN identity_key
       THEN /\ task' = [task EXCEPT ![t] = Done("publish_otk_bundle", "UnknownIdentity")]
            /\ UNCHANGED one_time_pre_keys
       ELSE /\ Len(PoolOf(identity)) + Len(otk_bundle.pre_keys) <= MaxPool
            /\ one_time_pre_keys' =
                    Insert(one_time_pre_keys, identity, PoolOf(identity) \o otk_bundle.pre_keys)
            /\ task' = [task EXCEPT ![t] = Done("publish_otk_bundle", "Ok")]
    /\ UNCHANGED <<backend, client, identity_key, current_pre_key, fetched, routerVars>>

FrameNext ==
    \E t \in Tasks :
        \/ \E id \in FrameIdentities, ik \in IKs, p \in PreKeys :
              set_spk(t, id, ik, Signed(ik, p))
        \/ SetSpkInsertSpk(t)
        \/ RegisterClearOtks(t)
        \/ \E id \in FrameIdentities, ik \in IKs :
              publish_otk_bundle(t, id, ik, Batch(ik, "otk1"))
        \/ \E id \in FrameIdentities, ik \in IKs :
              sqlite_publish_otk_bundle(t, id, ik, Batch(ik, "otk1"))
        \/ Return(t)

FrameSpec == Init /\ [][FrameNext]_vars

\* What the store holds for an identity: its identity key, its signed
\* prekey and its pool of one-time prekeys.
EntryOf(id) ==
    <<IF id \in DOMAIN identity_key THEN identity_key[id] ELSE "none",
      IF id \in DOMAIN current_pre_key THEN current_pre_key[id] ELSE NoSpk,
      PoolOf(id)>>

\* Handler t takes a step of a set_spk call in this step.
SetSpkStep(t) ==
    \/ task[t].pc = "idle" /\ task'[t].op = "set_spk"
    \/ task[t].pc \in {"insert_spk", "clear_otks"} /\ task'[t] # task[t]

====
